---- MODULE Spec2Model ----
(***************************************************************************)
(* A model of the tf2_r2r transform buffer:                                *)
(*   utils.rs                          Time / Duration arithmetic          *)
(*   tf_individual_transform_chain.rs  the history of one directed edge    *)
(*   tf_buffer.rs                      the frame graph, ingestion, lookup  *)
(*   tf_listener.rs                    the RwLock-protected shared handle  *)
(* transforms.rs is not among the sources; its functions (get_inverse,     *)
(* chain_transforms, interpolate, to_transform_stamped) are modelled from  *)
(* section 4.2 of the specification.                                       *)
(***************************************************************************)
EXTENDS Integers, Sequences, FiniteSets, TLC

VARIABLES
    chain,                  \* a stand-alone TfIndividualTransformChain
    cache_duration,         \* TfBuffer.cache_duration
    child_transform_index,  \* TfBuffer.child_transform_index
    transform_data,         \* TfBuffer.transform_data
    search_impl,            \* which std binary search the build links
    lock,                   \* the RwLock around the buffer
    pc,                     \* position of each thread of the listener
    local,                  \* locals of each thread of the listener
    call                    \* the last call made, its arguments and result

vars == << chain, cache_duration, child_transform_index, transform_data,
           search_impl, lock, pc, local, call >>

-----------------------------------------------------------------------------
(* Bounds of the model.                                                    *)

\* Sub-second ticks per second.  utils.rs:3 sets 10^9; the model keeps the
\* (sec, nanosec) representation and its carry and borrow, at a coarser tick.
BILLION == 2

\* The modulus of the model's `as u32` cast (2^32 in the source).
U32_RANGE == 8

\* Largest seconds field of a stamp or of a query time.
MaxSec == 2

\* Longest history an insertion is still offered to.
MaxLen == 3

-----------------------------------------------------------------------------
(* utils.rs                                                                *)

\* Rust's integer division truncates toward zero and % takes the sign of the
\* dividend.
QuotT(a, b) == IF a >= 0 THEN a \div b ELSE -((-a) \div b)
RemT(a, b) == a - b * QuotT(a, b)
AsU32(x) == x % U32_RANGE

Time(s, n) == [sec |-> s, nanosec |-> n]

time_from_nanosec(t) ==
    [sec |-> QuotT(t, BILLION), nanosec |-> AsU32(RemT(t, BILLION))]

add_time_and_duration(t, d) ==
    LET sec == t.sec + d.sec
        nanosec == t.nanosec + d.nanosec
    IN  [sec |-> sec + QuotT(nanosec, BILLION), nanosec |-> nanosec % BILLION]

sub_duration_from_time(t, d) ==
    LET sec == t.sec - d.sec
        nanosec == t.nanosec - d.nanosec
    IN  IF nanosec < 0
        THEN [sec |-> sec - 1, nanosec |-> nanosec + BILLION]
        ELSE [sec |-> sec, nanosec |-> nanosec]

time_as_ns_i64(t) == t.sec * BILLION + t.nanosec

is_time_in_range_eq(target, min, max) ==
    /\ time_as_ns_i64(target) >= time_as_ns_i64(min)
    /\ time_as_ns_i64(target) <= time_as_ns_i64(max)

is_time_later(target, past) == time_as_ns_i64(target) > time_as_ns_i64(past)

\* target - delta
sub_time_and_time(target, delta) ==
    IF delta.sec > 0
    THEN IF target.nanosec >= delta.nanosec
         THEN [sec |-> target.sec - delta.sec,
               nanosec |-> target.nanosec - delta.nanosec]
         ELSE [sec |-> target.sec - delta.sec - 1,
               nanosec |-> BILLION + target.nanosec - delta.nanosec]
    ELSE LET nanosec == target.nanosec + delta.nanosec
         IN  [sec |-> target.sec - delta.sec + QuotT(nanosec, BILLION),
              nanosec |-> nanosec % BILLION]

-----------------------------------------------------------------------------
(* transforms.rs, from section 4.2 of the specification.  A rigid          *)
(* transform is taken from the subgroup of rotations by 0 or 180 degrees   *)
(* about one axis (rot = 1 or -1) with a translation along another, which  *)
(* is closed under composition and inversion and is not commutative.  The  *)
(* translation is a fraction [n, d] in lowest terms.                       *)

RECURSIVE GCD(_, _)
GCD(a, b) == IF b = 0 THEN a ELSE GCD(b, a % b)

Abs(x) == IF x < 0 THEN -x ELSE x

Frac(n, d) ==
    LET g == GCD(Abs(n), Abs(d))
        s == IF d < 0 THEN -1 ELSE 1
    IN  IF g = 0 THEN [n |-> 0, d |-> 0]
        ELSE [n |-> s * (n \div g), d |-> s * (d \div g)]

FracAdd(a, b) == Frac(a.n * b.d + b.n * a.d, a.d * b.d)
FracScale(k, a) == Frac(k * a.n, a.d)

Transform(rot, x) == [rot |-> rot, tr |-> Frac(x, 1)]

IdentityTransform == Transform(1, 0)

\* quaternion product q1.q2; translation t1 + q1.t2
compose(t1, t2) ==
    [rot |-> t1.rot * t2.rot, tr |-> FracAdd(t1.tr, FracScale(t1.rot, t2.tr))]

\* rotation conjugated; translation -(q^-1 . t)
invert(t) == [rot |-> t.rot, tr |-> FracScale(-t.rot, t.tr)]

TransformStamped(frame_id, child_frame_id, stamp, transform) ==
    [header |-> [frame_id |-> frame_id, stamp |-> stamp],
     child_frame_id |-> child_frame_id,
     transform |-> transform]

to_transform_stamped(transform, frame_id, child_frame_id, stamp) ==
    TransformStamped(frame_id, child_frame_id, stamp, transform)

\* swaps parent and child frame ids and preserves the stamp
get_inverse(msg) ==
    TransformStamped(msg.child_frame_id, msg.header.frame_id,
                     msg.header.stamp, invert(msg.transform))

\* left fold of compose over the sequence, starting from the identity
RECURSIVE chain_transforms(_)
chain_transforms(list) ==
    IF list = << >> THEN IdentityTransform
    ELSE compose(chain_transforms(SubSeq(list, 1, Len(list) - 1)),
                 list[Len(list)])

\* weight = [n, d] is the weight of tf1.  The translation is interpolated
\* linearly.  The slerp of two equal rotations is that rotation, and at the
\* weights 1 and 0 it is the first and the second; rot = 0 stands for any
\* rotation strictly between two different ones, which compose keeps as 0.
interpolate(tf1, tf2, weight) ==
    [rot |-> IF tf1.rot = tf2.rot \/ weight.n = weight.d THEN tf1.rot
             ELSE IF weight.n = 0 THEN tf2.rot
             ELSE 0,
     tr  |-> FracAdd(Frac(weight.n * tf1.tr.n, weight.d * tf1.tr.d),
                     Frac((weight.d - weight.n) * tf2.tr.n,
                          weight.d * tf2.tr.d))]

-----------------------------------------------------------------------------
(* tf_individual_transform_chain.rs                                        *)

Ok(v) == [ok |-> TRUE, value |-> v]
Err(e) == [ok |-> FALSE, error |-> e]

get_nanos(dur) == dur.sec * BILLION + dur.nanosec

\* slice::binary_search_by of the standard library from 1.52 to 1.81: the
\* loop returns as soon as a probe compares equal.  Indices are 0-based.
RECURSIVE search_early_return(_, _, _, _)
search_early_return(s, key, left, right) ==
    IF left < right
    THEN LET mid == left + (right - left) \div 2
             probe == time_as_ns_i64(s[mid + 1].header.stamp)
         IN  IF probe < key THEN search_early_return(s, key, mid + 1, right)
             ELSE IF probe > key THEN search_early_return(s, key, left, mid)
             ELSE Ok(mid)
    ELSE Err(left)

\* slice::binary_search_by of the standard library since 1.82 (and before
\* 1.52): the loop halves the range without branching on equality.
RECURSIVE search_branchless(_, _, _, _)
search_branchless(s, key, base, size) ==
    IF size > 1
    THEN LET half == size \div 2
             mid == base + half
             probe == time_as_ns_i64(s[mid + 1].header.stamp)
         IN  search_branchless(s, key, IF probe > key THEN base ELSE mid,
                               size - half)
    ELSE LET probe == time_as_ns_i64(s[base + 1].header.stamp)
         IN  IF probe = key THEN Ok(base)
             ELSE Err(base + (IF probe < key THEN 1 ELSE 0))

\* The result has the shape of Rust's Result<usize, usize>: the index of a
\* match, or in error the index where the key would be inserted.
binary_search_time(s, time) ==
    IF search_impl = "early_return"
    THEN search_early_return(s, time_as_ns_i64(time), 0, Len(s))
    ELSE IF Len(s) = 0 THEN Err(0)
    ELSE search_branchless(s, time_as_ns_i64(time), 0, Len(s))

\* Result::unwrap_or_else(|index| index)
Index(r) == IF r.ok THEN r.value ELSE r.error

\* Vec::push(msg): the sample goes to the end whatever the index
VecInsert_push(s, index, msg) == s \o << msg >>

\* Vec::insert(index, msg), index 0-based
VecInsert(s, index, msg) ==
    SubSeq(s, 1, index) \o << msg >> \o SubSeq(s, index + 1, Len(s))

\* Vec::drain(..index)
VecDrain(s, index) == SubSeq(s, index + 1, Len(s))

TfIndividualTransformChain_new(static_tf, cache) ==
    [cache_duration |-> cache, static_tf |-> static_tf,
     transform_chain |-> << >>]

newest_stamp(self) ==
    IF self.transform_chain = << >> THEN Err("None")
    ELSE Ok(self.transform_chain[Len(self.transform_chain)].header.stamp)

\* add_to_buffer with the drain one short of the index searched for
add_to_buffer_drain_short(self, msg) ==
    LET index == Index(binary_search_time(self.transform_chain,
                                          msg.header.stamp))
        inserted == VecInsert(self.transform_chain, index, msg)
        newest == inserted[Len(inserted)].header.stamp
        time_to_keep == sub_duration_from_time(newest, self.cache_duration)
        found == Index(binary_search_time(inserted, time_to_keep))
    IN  IF is_time_later(newest,
                         add_time_and_duration(time_from_nanosec(0),
                                               self.cache_duration))
        THEN [self EXCEPT !.transform_chain =
                 VecDrain(inserted, IF found > 0 THEN found - 1 ELSE 0)]
        ELSE [self EXCEPT !.transform_chain = inserted]

\* add_to_buffer with the drain reaching through the index searched for
add_to_buffer_drain_through(self, msg) ==
    LET index == Index(binary_search_time(self.transform_chain,
                                          msg.header.stamp))
        inserted == VecInsert(self.transform_chain, index, msg)
        newest == inserted[Len(inserted)].header.stamp
        time_to_keep == sub_duration_from_time(newest, self.cache_duration)
        found == Index(binary_search_time(inserted, time_to_keep))
    IN  IF is_time_later(newest,
                         add_time_and_duration(time_from_nanosec(0),
                                               self.cache_duration))
        THEN [self EXCEPT !.transform_chain =
                 VecDrain(inserted,
                          IF found < Len(inserted) THEN found + 1 ELSE found)]
        ELSE [self EXCEPT !.transform_chain = inserted]

add_to_buffer(self, msg) ==
    LET index == Index(binary_search_time(self.transform_chain,
                                          msg.header.stamp))
        inserted == VecInsert(self.transform_chain, index, msg)
        newest == inserted[Len(inserted)].header.stamp
        time_to_keep == sub_duration_from_time(newest, self.cache_duration)
    IN  IF is_time_later(newest,
                         add_time_and_duration(time_from_nanosec(0),
                                               self.cache_duration))
        THEN [self EXCEPT !.transform_chain =
                 VecDrain(inserted,
                          Index(binary_search_time(inserted, time_to_keep)))]
        ELSE [self EXCEPT !.transform_chain = inserted]

\* get_closest_transform without the latest sentinel
get_closest_transform_no_sentinel(self, time) ==
    LET s == self.transform_chain
        found == binary_search_time(s, time)
        x == Index(found)
    IN  IF self.static_tf THEN Ok(s[Len(s)])
        ELSE IF found.ok THEN Ok(s[x + 1])
        ELSE IF x = 0
             THEN Err([kind |-> "AttemptedLookupInPast", time |-> time,
                       sample |-> s[1]])
        ELSE IF x >= Len(s)
             THEN Err([kind |-> "AttemptedLookUpInFuture", time |-> time,
                       sample |-> s[Len(s)]])
        ELSE LET tf1 == s[x].transform
                 tf2 == s[x + 1].transform
                 time1 == s[x].header.stamp
                 time2 == s[x + 1].header.stamp
                 total_duration == get_nanos(sub_time_and_time(time2, time1))
                 desired_duration == get_nanos(sub_time_and_time(time, time1))
                 weight == [n |-> total_duration - desired_duration,
                            d |-> total_duration]
             IN  Ok(to_transform_stamped(interpolate(tf1, tf2, weight),
                                         s[x + 1].header.frame_id,
                                         s[x + 1].child_frame_id, time))

\* get_closest_transform that returns the earlier of the two samples around
\* the time instead of interpolating
get_closest_transform_no_interpolation(self, time) ==
    LET s == self.transform_chain
        found == binary_search_time(s, time)
        x == Index(found)
    IN  IF time_as_ns_i64(time) = 0 THEN Ok(s[Len(s)])
        ELSE IF self.static_tf THEN Ok(s[Len(s)])
        ELSE IF found.ok THEN Ok(s[x + 1])
        ELSE IF x = 0
             THEN Err([kind |-> "AttemptedLookupInPast", time |-> time,
                       sample |-> s[1]])
        ELSE IF x >= Len(s)
             THEN Err([kind |-> "AttemptedLookUpInFuture", time |-> time,
                       sample |-> s[Len(s)]])
        ELSE Ok(s[x])

\* Called on a non-empty history only: first() and last() are unwrapped.
get_closest_transform(self, time) ==
    LET s == self.transform_chain
        found == binary_search_time(s, time)
        x == Index(found)
    IN  IF time_as_ns_i64(time) = 0 THEN Ok(s[Len(s)])
        ELSE IF self.static_tf THEN Ok(s[Len(s)])
        ELSE IF found.ok THEN Ok(s[x + 1])
        ELSE IF x = 0
             THEN Err([kind |-> "AttemptedLookupInPast", time |-> time,
                       sample |-> s[1]])
        ELSE IF x >= Len(s)
             THEN Err([kind |-> "AttemptedLookUpInFuture", time |-> time,
                       sample |-> s[Len(s)]])
        ELSE LET tf1 == s[x].transform
                 tf2 == s[x + 1].transform
                 time1 == s[x].header.stamp
                 time2 == s[x + 1].header.stamp
                 total_duration == get_nanos(sub_time_and_time(time2, time1))
                 desired_duration == get_nanos(sub_time_and_time(time, time1))
                 weight == [n |-> total_duration - desired_duration,
                            d |-> total_duration]
             IN  Ok(to_transform_stamped(interpolate(tf1, tf2, weight),
                                         s[x + 1].header.frame_id,
                                         s[x + 1].child_frame_id, time))

\* has_valid_transform that never asks for the static flag
has_valid_transform_ignoring_static(self, time) ==
    IF self.transform_chain = << >> THEN FALSE
    ELSE \/ time_as_ns_i64(time) = 0
         \/ is_time_in_range_eq(
                time, self.transform_chain[1].header.stamp,
                self.transform_chain[Len(self.transform_chain)].header.stamp)

\* has_valid_transform without the latest sentinel
has_valid_transform_no_sentinel(self, time) ==
    IF self.transform_chain = << >> THEN FALSE
    ELSE IF self.static_tf THEN TRUE
    ELSE is_time_in_range_eq(
             time, self.transform_chain[1].header.stamp,
             self.transform_chain[Len(self.transform_chain)].header.stamp)

\* has_valid_transform that asks for the oldest stamp only
has_valid_transform_open_ended(self, time) ==
    IF self.transform_chain = << >> THEN FALSE
    ELSE IF self.static_tf THEN TRUE
    ELSE \/ time_as_ns_i64(time) = 0
         \/ time_as_ns_i64(time)
                >= time_as_ns_i64(self.transform_chain[1].header.stamp)

has_valid_transform(self, time) ==
    IF self.transform_chain = << >> THEN FALSE
    ELSE IF self.static_tf THEN TRUE
    ELSE \/ time_as_ns_i64(time) = 0
         \/ is_time_in_range_eq(
                time, self.transform_chain[1].header.stamp,
                self.transform_chain[Len(self.transform_chain)].header.stamp)

-----------------------------------------------------------------------------
(* tf_buffer.rs.  A TfBuffer value is the record of its three fields.      *)

TfGraphNode(child, parent) == [child |-> child, parent |-> parent]

TfBuffer ==
    [child_transform_index |-> child_transform_index,
     transform_data |-> transform_data,
     cache_duration |-> cache_duration]

\* add_transform that stamps the flag of the call on the history it finds
add_transform_flag_overwritten(buf, transform, static_tf) ==
    LET frame_id == transform.header.frame_id
        child == transform.child_frame_id
        index == buf.child_transform_index
        children == IF frame_id \in DOMAIN index THEN index[frame_id] ELSE {}
        key == TfGraphNode(child, frame_id)
        data == buf.transform_data
        entry == IF key \in DOMAIN data
                 THEN [data[key] EXCEPT !.static_tf = static_tf]
                 ELSE TfIndividualTransformChain_new(static_tf,
                                                     buf.cache_duration)
    IN  [buf EXCEPT
            !.child_transform_index =
                (frame_id :> (children \cup {child})) @@ index,
            !.transform_data =
                (key :> add_to_buffer(entry, transform)) @@ data]

\* child_transform_index.entry(frame_id).or_default().insert(child), then
\* transform_data.entry(key), created when vacant, then add_to_buffer.
add_transform(buf, transform, static_tf) ==
    LET frame_id == transform.header.frame_id
        child == transform.child_frame_id
        index == buf.child_transform_index
        children == IF frame_id \in DOMAIN index THEN index[frame_id] ELSE {}
        key == TfGraphNode(child, frame_id)
        data == buf.transform_data
        entry == IF key \in DOMAIN data THEN data[key]
                 ELSE TfIndividualTransformChain_new(static_tf,
                                                     buf.cache_duration)
    IN  [buf EXCEPT
            !.child_transform_index =
                (frame_id :> (children \cup {child})) @@ index,
            !.transform_data =
                (key :> add_to_buffer(entry, transform)) @@ data]

\* handle_incoming_transforms that adds each transform and not its inverse
RECURSIVE handle_incoming_transforms_forward_only(_, _, _)
handle_incoming_transforms_forward_only(buf, transforms, static_tf) ==
    IF transforms = << >> THEN buf
    ELSE handle_incoming_transforms_forward_only(
             add_transform(buf, Head(transforms), static_tf),
             Tail(transforms), static_tf)

RECURSIVE handle_incoming_transforms(_, _, _)
handle_incoming_transforms(buf, transforms, static_tf) ==
    IF transforms = << >> THEN buf
    ELSE LET transform == Head(transforms)
             forward == add_transform(buf, transform, static_tf)
             both == add_transform(forward, get_inverse(transform), static_tf)
         IN  handle_incoming_transforms(both, Tail(transforms), static_tf)

\* edge_is_valid with child and parent exchanged in the key looked up
edge_is_valid_key_swapped(buf, current_node, v, time) ==
    LET key == TfGraphNode(current_node, v)
    IN  /\ key \in DOMAIN buf.transform_data
        /\ has_valid_transform(buf.transform_data[key], time)

\* edge_is_valid without the question to the history
edge_is_valid_any_time(buf, current_node, v, time) ==
    TfGraphNode(v, current_node) \in DOMAIN buf.transform_data

\* The test of lines 96-102: the edge current_node -> v is stored and its
\* history reports a valid transform at the time.
edge_is_valid(buf, current_node, v, time) ==
    LET key == TfGraphNode(v, current_node)
    IN  /\ key \in DOMAIN buf.transform_data
        /\ has_valid_transform(buf.transform_data[key], time)

\* visit_children that never marks a frame as visited
RECURSIVE visit_children_unmarked(_, _, _, _, _)
visit_children_unmarked(buf, current_node, time, remaining, st) ==
    IF remaining = {} THEN {st}
    ELSE UNION {
           IF v \in st.visited
           THEN visit_children_unmarked(buf, current_node, time,
                                        remaining \ {v}, st)
           ELSE IF edge_is_valid(buf, current_node, v, time)
           THEN visit_children_unmarked(buf, current_node, time,
                    remaining \ {v},
                    [parents  |-> (v :> current_node) @@ st.parents,
                     frontier |-> << v >> \o st.frontier,
                     visited  |-> st.visited])
           ELSE visit_children_unmarked(buf, current_node, time,
                                        remaining \ {v}, st)
           : v \in remaining }

\* The for loop over the children of current_node (lines 91-108).  A HashSet
\* is iterated in an order the program does not control: the result is the
\* set of the states the loop can end in.
RECURSIVE visit_children(_, _, _, _, _)
visit_children(buf, current_node, time, remaining, st) ==
    IF remaining = {} THEN {st}
    ELSE UNION {
           IF v \in st.visited
           THEN visit_children(buf, current_node, time, remaining \ {v}, st)
           ELSE IF edge_is_valid(buf, current_node, v, time)
           THEN visit_children(buf, current_node, time, remaining \ {v},
                    [parents  |-> (v :> current_node) @@ st.parents,
                     frontier |-> << v >> \o st.frontier,
                     visited  |-> st.visited \cup {v}])
           ELSE visit_children(buf, current_node, time, remaining \ {v}, st)
           : v \in remaining }

\* The while loop over the frontier (lines 85-110): the set of parent maps
\* it can end with.
RECURSIVE search_frontier(_, _, _, _)
search_frontier(buf, to, time, st) ==
    IF st.frontier = << >> THEN {st.parents}
    ELSE LET current_node == Head(st.frontier)
             popped == [st EXCEPT !.frontier = Tail(st.frontier)]
             index == buf.child_transform_index
         IN  IF current_node = to THEN {st.parents}
             ELSE IF current_node \in DOMAIN index
             THEN UNION { search_frontier(buf, to, time, next) :
                            next \in visit_children(buf, current_node, time,
                                                    index[current_node], popped) }
             ELSE search_frontier(buf, to, time, popped)

Reverse(s) == [i \in 1..Len(s) |-> s[Len(s) + 1 - i]]

\* the error built with the two frames exchanged
CouldNotFindTransform_swapped(from, to, index) ==
    [kind |-> "CouldNotFindTransform", from |-> to, to |-> from, index |-> index]

CouldNotFindTransform(from, to, index) ==
    [kind |-> "CouldNotFindTransform", from |-> from, to |-> to, index |-> index]

\* The walk back with the test for `from` made after the step instead of
\* before it.
RECURSIVE walk_parents_step_first(_, _, _, _, _, _)
walk_parents_step_first(buf, parents, from, to, r, res) ==
    IF r \in DOMAIN parents
    THEN IF parents[r] = from THEN Ok(Reverse(Append(res, r)))
         ELSE walk_parents_step_first(buf, parents, from, to, parents[r],
                                      Append(res, r))
    ELSE Err(CouldNotFindTransform(from, to, buf.child_transform_index))

\* The walk back over the parent pointers (lines 111-128).
RECURSIVE walk_parents(_, _, _, _, _, _)
walk_parents(buf, parents, from, to, r, res) ==
    IF r = from THEN Ok(Reverse(res))
    ELSE IF r \in DOMAIN parents
    THEN walk_parents(buf, parents, from, to, parents[r], Append(res, r))
    ELSE Err(CouldNotFindTransform(from, to, buf.child_transform_index))

\* The set of the results the path search can return.
retrieve_transform_path(buf, from, to, time) ==
    { walk_parents(buf, parents, from, to, to, << >>) :
        parents \in search_frontier(buf, to, time,
                        [parents |-> << >>, frontier |-> << from >>,
                         visited |-> {from}]) }

\* The loop of lines 146-160: sample each edge of the path in turn and stop at
\* the first error.
RECURSIVE collect_transforms(_, _, _, _, _)
collect_transforms(buf, first, path, time, tf_list) ==
    IF path = << >> THEN Ok(tf_list)
    ELSE LET intermediate == Head(path)
             time_cache == buf.transform_data[TfGraphNode(intermediate, first)]
             transform == get_closest_transform(time_cache, time)
         IN  IF transform.ok
             THEN collect_transforms(buf, intermediate, Tail(path), time,
                                     Append(tf_list, transform.value.transform))
             ELSE transform

\* lookup_along with the two frames exchanged in the answer
lookup_along_frames_swapped(buf, from, to, time, path) ==
    IF path.ok
    THEN LET tf_list == collect_transforms(buf, from, path.value, time, << >>)
         IN  IF tf_list.ok
             THEN Ok(TransformStamped(to, from, time,
                                      chain_transforms(tf_list.value)))
             ELSE tf_list
    ELSE path

lookup_along(buf, from, to, time, path) ==
    IF path.ok
    THEN LET tf_list == collect_transforms(buf, from, path.value, time, << >>)
         IN  IF tf_list.ok
             THEN Ok(TransformStamped(from, to, time,
                                      chain_transforms(tf_list.value)))
             ELSE tf_list
    ELSE path

\* The set of the results lookup_transform can return.
lookup_transform(buf, from, to, time) ==
    { lookup_along(buf, from, to, time, path) :
        path \in retrieve_transform_path(buf, from, to, time) }

\* time_travel with the two factors composed in the other order
time_travel_inverse_first(tf1, tf2, to, from, time1) ==
    IF ~tf1.ok THEN tf1
    ELSE IF ~tf2.ok THEN tf2
    ELSE Ok(to_transform_stamped(
                chain_transforms(<< get_inverse(tf1.value).transform,
                                    tf2.value.transform >>),
                from, to, time1))

time_travel(tf1, tf2, to, from, time1) ==
    IF ~tf1.ok THEN tf1
    ELSE IF ~tf2.ok THEN tf2
    ELSE Ok(to_transform_stamped(
                chain_transforms(<< tf2.value.transform,
                                    get_inverse(tf1.value).transform >>),
                from, to, time1))

\* The set of the results lookup_transform_with_time_travel can return.
lookup_transform_with_time_travel(buf, to, time2, from, time1, fixed_frame) ==
    { time_travel(tf1, tf2, to, from, time1) :
        tf1 \in lookup_transform(buf, from, fixed_frame, time1),
        tf2 \in lookup_transform(buf, to, fixed_frame, time2) }

-----------------------------------------------------------------------------
(* tf_listener.rs.  The buffer sits in an Arc<RwLock<TfBuffer>>; the lock  *)
(* is the record of the thread holding it for writing and of the set of    *)
(* threads holding it for reading.                                         *)

\* RwLock::write returns with no reader inside
write_can_acquire_ignoring_readers(l) == l.writer = "none"

\* RwLock::write returns once no thread holds the lock.
write_can_acquire(l) == l.writer = "none" /\ l.readers = {}

\* RwLock::read returns whoever holds the lock
read_can_acquire_always(l) == TRUE

\* RwLock::read returns once no thread holds the lock for writing.
read_can_acquire(l) == l.writer = "none"

\* The topic of a subscriber names its thread; the closure of "tf_static"
\* passes static_tf = true.
Subscribers == {"tf", "tf_static"}

static_tf_of(t) == t = "tf_static"

\* TfListener::lookup_transform, inside the read guard
TfListener_lookup_transform(buf, from, to, time) ==
    lookup_transform(buf, from, to, time)

\* TfListener::lookup_transform_with_time_travel, inside the read guard: the
\* arguments are handed over in the order the listener declares them.
TfListener_lookup_transform_with_time_travel(buf, from, time1, to, time2, fixed_frame) ==
    lookup_transform_with_time_travel(buf, from, time1, to, time2, fixed_frame)

-----------------------------------------------------------------------------
(* Inputs of the model.                                                    *)

PARENT == "parent"
CHILD0 == "child0"

\* Stamps and query times: whole seconds up to MaxSec, and the last tick
\* before each of them.
Stamps ==
    {Time(s, 0) : s \in 0..MaxSec} \cup {Time(s, BILLION - 1) : s \in 0..(MaxSec - 1)}

QueryTimes == Stamps \cup {Time(MaxSec, BILLION - 1)}

\* Duration { sec: 1, nanosec: 0 } of test_cache_duration, and a duration
\* with a sub-second part.
CacheDurations == {Time(1, 0), Time(1, BILLION - 1)}

SearchImpls == {"early_return", "branchless"}

NoCall == [op |-> "none"]

NoChain == TfIndividualTransformChain_new(FALSE, Time(0, 0))

DEFAULT_CACHE_DURATION_SECONDS == 10

\* TfBuffer::new_with_duration
TfBuffer_new_with_duration(cache) ==
    /\ cache_duration = cache
    /\ child_transform_index = << >>
    /\ transform_data = << >>

\* TfBuffer::new
TfBuffer_new ==
    TfBuffer_new_with_duration(Time(DEFAULT_CACHE_DURATION_SECONDS, 0))

ListenerIdle ==
    /\ lock = [writer |-> "none", readers |-> {}]
    /\ pc = << >>
    /\ local = << >>

-----------------------------------------------------------------------------
(* The history of one edge, used on its own.                               *)

ChainMsgs ==
    {TransformStamped(PARENT, CHILD0, t, Transform(1, x)) :
        t \in Stamps, x \in {0, 1}}

InitChain ==
    /\ \E static_tf \in BOOLEAN, cache \in CacheDurations :
           chain = TfIndividualTransformChain_new(static_tf, cache)
    /\ search_impl \in SearchImpls
    /\ TfBuffer_new_with_duration(Time(0, 0))
    /\ ListenerIdle
    /\ call = NoCall

ChainAddToBuffer(msg) ==
    /\ Len(chain.transform_chain) < MaxLen
    /\ chain' = add_to_buffer(chain, msg)
    /\ call' = [op |-> "add_to_buffer", msg |-> msg]
    /\ UNCHANGED << cache_duration, child_transform_index, transform_data,
                    search_impl, lock, pc, local >>

ChainGetClosestTransform(time) ==
    /\ chain.transform_chain # << >>
    /\ call' = [op |-> "get_closest_transform", time |-> time,
                result |-> get_closest_transform(chain, time)]
    /\ UNCHANGED << chain, cache_duration, child_transform_index,
                    transform_data, search_impl, lock, pc, local >>

ChainHasValidTransform(time) ==
    /\ call' = [op |-> "has_valid_transform", time |-> time,
                result |-> has_valid_transform(chain, time)]
    /\ UNCHANGED << chain, cache_duration, child_transform_index,
                    transform_data, search_impl, lock, pc, local >>

NextChain ==
    \/ \E msg \in ChainMsgs : ChainAddToBuffer(msg)
    \/ \E time \in QueryTimes : ChainGetClosestTransform(time)
    \/ \E time \in QueryTimes : ChainHasValidTransform(time)

SpecChain == InitChain /\ [][NextChain]_vars

-----------------------------------------------------------------------------
(* The buffer used directly, as the tests of tf_buffer.rs use it.          *)

\* Most samples the buffer holds when an insertion is still offered.
MaxSamples == 3

Frames == {"a", "b", "c"}

BufferStamps == {Time(1, 0), Time(MaxSec, 0)}

BufferTimes ==
    {Time(0, 0), Time(1, 0), Time(1, BILLION - 1), Time(MaxSec, 0),
     Time(MaxSec, BILLION - 1)}

\* A cache shorter than the distance of the two stamps, so that the later
\* stamp evicts the earlier one, and a cache that holds both.
BufferCaches == {Time(0, BILLION - 1), Time(MaxSec - 1, 0)}

\* The edges producers send: two routes from a to c.  A batch adds the
\* inverse of each edge, which closes a cycle.
BufferEdges == {<< "a", "b" >>, << "b", "c" >>, << "a", "c" >>}

\* The times of the lookups that are made as calls; the properties range
\* over every query of BufferTimes.
LookupTimes == {Time(0, 0), Time(1, 0), Time(1, BILLION - 1)}

BufferMsgs ==
    {TransformStamped(e[1], e[2], t, Transform(1, 1)) :
        e \in BufferEdges, t \in BufferStamps}

RECURSIVE SumLen(_, _)
SumLen(data, keys) ==
    IF keys = {} THEN 0
    ELSE LET k == CHOOSE k \in keys : TRUE
         IN  Len(data[k].transform_chain) + SumLen(data, keys \ {k})

Samples(buf) == SumLen(buf.transform_data, DOMAIN buf.transform_data)

HistoryLen(buf, parent, child) ==
    LET key == TfGraphNode(child, parent)
    IN  IF key \in DOMAIN buf.transform_data
        THEN Len(buf.transform_data[key].transform_chain)
        ELSE 0

SetBuffer(buf) ==
    /\ child_transform_index' = buf.child_transform_index
    /\ transform_data' = buf.transform_data
    /\ cache_duration' = buf.cache_duration

InitBuffer ==
    /\ \E cache \in BufferCaches : TfBuffer_new_with_duration(cache)
    /\ search_impl \in SearchImpls
    /\ chain = NoChain
    /\ ListenerIdle
    /\ call = NoCall

AddTransform(msg, static_tf) ==
    /\ Samples(TfBuffer) < MaxSamples
    /\ HistoryLen(TfBuffer, msg.header.frame_id, msg.child_frame_id) < MaxLen
    /\ SetBuffer(add_transform(TfBuffer, msg, static_tf))
    /\ call' = [op |-> "add_transform"]
    /\ UNCHANGED << chain, search_impl, lock, pc, local >>

HandleIncomingTransforms(msg, static_tf) ==
    /\ Samples(TfBuffer) + 2 <= MaxSamples
    /\ HistoryLen(TfBuffer, msg.header.frame_id, msg.child_frame_id) < MaxLen
    /\ HistoryLen(TfBuffer, msg.child_frame_id, msg.header.frame_id) < MaxLen
    /\ SetBuffer(handle_incoming_transforms(TfBuffer, << msg >>, static_tf))
    /\ call' = [op |-> "handle_incoming_transforms"]
    /\ UNCHANGED << chain, search_impl, lock, pc, local >>

LookupTransform(from, to, time) ==
    /\ \E result \in lookup_transform(TfBuffer, from, to, time) :
           call' = [op |-> "lookup_transform", from |-> from, to |-> to,
                    time |-> time, result |-> result]
    /\ UNCHANGED << chain, cache_duration, child_transform_index,
                    transform_data, search_impl, lock, pc, local >>

NextBuffer ==
    \/ \E msg \in BufferMsgs, static_tf \in BOOLEAN :
           AddTransform(msg, static_tf)
    \/ \E msg \in BufferMsgs, static_tf \in BOOLEAN :
           HandleIncomingTransforms(msg, static_tf)
    \/ \E time \in LookupTimes : LookupTransform("a", "c", time)

SpecBuffer == InitBuffer /\ [][NextBuffer]_vars

-----------------------------------------------------------------------------
(* The buffer fed by batches only, as the two subscriber callbacks feed it. *)

\* Most samples the buffer holds when a batch is still offered.
MaxIngestSamples == 4

IngestTransforms == {Transform(1, 1), Transform(-1, 1)}

IngestMsg(parent, child, stamp, transform) ==
    TransformStamped(parent, child, stamp, transform)

\* TFMessage values: every single transform of the edges a -> b and b -> c,
\* and the batches that carry both edges at one stamp.
IngestBatches ==
    {<< IngestMsg(e[1], e[2], t, tf) >> :
        e \in {<< "a", "b" >>, << "b", "c" >>}, t \in BufferStamps,
        tf \in IngestTransforms}
    \cup {<< IngestMsg("a", "b", t, tf), IngestMsg("b", "c", t, tf) >> :
             t \in BufferStamps, tf \in IngestTransforms}

EdgeKey(msg) == TfGraphNode(msg.child_frame_id, msg.header.frame_id)

Ingest(batch, static_tf) ==
    /\ Samples(TfBuffer) <= MaxIngestSamples
    /\ SetBuffer(handle_incoming_transforms(TfBuffer, batch, static_tf))
    /\ call' = [op |-> "handle_incoming_transforms", batch |-> batch,
                static_tf |-> static_tf]
    /\ UNCHANGED << chain, search_impl, lock, pc, local >>

NextIngest ==
    \E batch \in IngestBatches, static_tf \in BOOLEAN : Ingest(batch, static_tf)

SpecIngest == InitBuffer /\ [][NextIngest]_vars

-----------------------------------------------------------------------------
(* Properties of ingestion (SpecIngest).                                   *)

\* C11: an add for an edge the buffer already holds changes neither the
\* static flag nor the cache duration of that edge, whatever flag the add
\* carries.
C11_StaticFlagFixed ==
    [][\A key \in DOMAIN transform_data :
          /\ key \in DOMAIN transform_data'
          /\ transform_data'[key].static_tf = transform_data[key].static_tf
          /\ transform_data'[key].cache_duration
                 = transform_data[key].cache_duration
      ]_vars

\* A batch has been applied to an edge whose flag differs from the flag the
\* batch carried: the edge was created on the other channel.
C11_Witness ==
    /\ call.op = "handle_incoming_transforms"
    /\ \E i \in 1..Len(call.batch) :
          LET history == transform_data[EdgeKey(call.batch[i])]
          IN  /\ history.static_tf # call.static_tf
              /\ Len(history.transform_chain) >= 2

ValidAtAllTimes(history) ==
    \A time \in BufferTimes : has_valid_transform(history, time)

\* C12, as stated: after a batch of the static channel has been applied,
\* every edge named by a sample of the batch is valid at every query time,
\* whatever was ingested for that edge before.
C12_StaticChannelAlwaysValid ==
    (call.op = "handle_incoming_transforms" /\ call.static_tf)
    => \A i \in 1..Len(call.batch) :
          ValidAtAllTimes(transform_data[EdgeKey(call.batch[i])])

\* C12, amended: when a batch of the static channel is applied, every edge
\* named by a sample of the batch that the batch creates, or that was
\* created on the static channel, is valid at every query time afterwards.
C12_StaticEdgesAlwaysValid ==
    [][(call'.op = "handle_incoming_transforms" /\ call'.static_tf)
        => \A i \in 1..Len(call'.batch) :
              LET key == EdgeKey(call'.batch[i])
              IN  (key \notin DOMAIN transform_data
                   \/ transform_data[key].static_tf)
                  => ValidAtAllTimes(transform_data'[key])
      ]_vars

\* A batch of the static channel has been applied to a static edge, and a
\* non-zero query time lies outside the stamps the edge holds.
C12_Witness ==
    /\ call.op = "handle_incoming_transforms"
    /\ call.static_tf
    /\ \E i \in 1..Len(call.batch) :
          LET history == transform_data[EdgeKey(call.batch[i])]
              s == history.transform_chain
          IN  /\ history.static_tf
              /\ \E time \in BufferTimes :
                    /\ time_as_ns_i64(time) # 0
                    /\ ~is_time_in_range_eq(time, s[1].header.stamp,
                                            s[Len(s)].header.stamp)

C21_EdgeLifecycle ==
    [][/\ DOMAIN transform_data \subseteq DOMAIN transform_data'
       /\ \A key \in DOMAIN transform_data' :
             /\ key.parent \in DOMAIN child_transform_index'
             /\ key.child \in child_transform_index'[key.parent]
             /\ transform_data'[key].transform_chain # << >>
             /\ LET old == IF key \in DOMAIN transform_data
                           THEN transform_data[key].transform_chain
                           ELSE << >>
                    new == transform_data'[key].transform_chain
                IN  \A i \in 1..Len(old) :
                       time_as_ns_i64(new[Len(new)].header.stamp)
                           >= time_as_ns_i64(old[i].header.stamp)]_vars

\* A sample older than the retention window came in for an edge that holds
\* a newer one: the eviction ran and dropped it at once.
C21_Witness ==
    /\ call.op = "handle_incoming_transforms"
    /\ EdgeKey(call.batch[1]) \in DOMAIN transform_data
    /\ LET s == transform_data[EdgeKey(call.batch[1])].transform_chain
       IN  /\ s # << >>
           /\ \A i \in 1..Len(s) :
                  time_as_ns_i64(s[i].header.stamp)
                      > time_as_ns_i64(call.batch[1].header.stamp)

\* The times of the two lookups of a time travel over ingested batches.
TravelTimes1 == {Time(1, 0), Time(MaxSec, 0)}
TravelTimes2 == {Time(1, 0), Time(1, BILLION - 1)}

\* What C16 expects of the pair of same-time lookups tf1 = lookup(from,
\* fixed, t1) and tf2 = lookup(to, fixed, t2).
TimeTravelExpected(r, tf1, tf2) ==
    IF ~tf1.ok THEN r = tf1
    ELSE IF ~tf2.ok THEN r = tf2
    ELSE /\ r.ok
         /\ r.value.transform
                = compose(tf2.value.transform, invert(tf1.value.transform))

\* C16: lookup_transform_with_time_travel(to, t2, from, t1, fixed) succeeds
\* exactly when lookup(from, fixed, t1) and lookup(to, fixed, t2) both
\* succeed; its transform is then lookup(to, fixed, t2) composed with the
\* inverse of lookup(from, fixed, t1), in that order; otherwise it returns
\* the error of lookup(from, fixed, t1) if that one fails, else the error of
\* lookup(to, fixed, t2).  Checked for from = a and every to and fixed.
C16_TimeTravelComposes ==
    \A to \in Frames, from \in {"a"}, fixed \in Frames,
       time1 \in TravelTimes1, time2 \in TravelTimes2 :
        LET first == lookup_transform(TfBuffer, from, fixed, time1)
            second == lookup_transform(TfBuffer, to, fixed, time2)
            travel == lookup_transform_with_time_travel(
                          TfBuffer, to, time2, from, time1, fixed)
        IN  /\ \A r \in travel :
                  \E tf1 \in first, tf2 \in second :
                      TimeTravelExpected(r, tf1, tf2)
            /\ \A tf1 \in first, tf2 \in second :
                  \E r \in travel : TimeTravelExpected(r, tf1, tf2)

\* A time travel from a at 2 s to c at 1 s over the fixed frame b succeeds
\* with two factors that do not commute, and the time travel to the unknown
\* side at a time a has no sample for fails.
C16_Witness ==
    /\ call.op = "handle_incoming_transforms"
    /\ \E tf1 \in lookup_transform(TfBuffer, "a", "b", Time(MaxSec, 0)),
          tf2 \in lookup_transform(TfBuffer, "c", "b", Time(1, 0)) :
          /\ tf1.ok
          /\ tf2.ok
          /\ compose(tf2.value.transform, invert(tf1.value.transform))
                 # compose(invert(tf1.value.transform), tf2.value.transform)
          /\ Ok(to_transform_stamped(
                    compose(tf2.value.transform, invert(tf1.value.transform)),
                    "a", "c", Time(MaxSec, 0)))
                 \in lookup_transform_with_time_travel(
                         TfBuffer, "c", Time(1, 0), "a", Time(MaxSec, 0), "b")
    /\ \E r \in lookup_transform_with_time_travel(
                    TfBuffer, "c", Time(1, BILLION - 1), "a", Time(1, 0), "b") :
          ~r.ok

-----------------------------------------------------------------------------
(* The listener: two subscriber callbacks write to the buffer and          *)
(* application threads look transforms up, all through the RwLock.         *)

\* Most samples the batches received may bring the buffer to.
MaxListenerSamples == 6

Readers == {"reader1", "reader2"}

Threads == Subscribers \cup Readers

ListenerMsg(parent, child, sec) ==
    TransformStamped(parent, child, Time(sec, 0), Transform(1, 1))

\* TFMessage values: a batch of one transform and a batch of two.
ListenerBatches ==
    {<< ListenerMsg("a", "b", 1) >>,
     << ListenerMsg("a", "b", 1), ListenerMsg("b", "c", 1) >>}

ListenerQueries ==
    {[op |-> "lookup_transform", from |-> "a", to |-> "c",
      time |-> Time(1, 0)],
     [op |-> "lookup_transform_with_time_travel", from |-> "a",
      time1 |-> Time(1, 0), to |-> "c", time2 |-> Time(1, 0),
      fixed_frame |-> "b"]}

\* Samples a callback that has received its batch will still add.
Pending(t) == IF pc[t] = "idle" THEN 0 ELSE 2 * Len(local[t].batch)

Init ==
    /\ TfBuffer_new
    /\ search_impl \in SearchImpls
    /\ chain = NoChain
    /\ lock = [writer |-> "none", readers |-> {}]
    /\ pc = [t \in Threads |-> "idle"]
    /\ local = [t \in Threads |-> NoCall]
    /\ call = NoCall

\* rosrust invokes the callback of subscriber t with a message.
Receive(t, batch) ==
    /\ pc[t] = "idle"
    /\ Samples(TfBuffer) + Pending(CHOOSE o \in Subscribers : o # t)
           + 2 * Len(batch) <= MaxListenerSamples
    /\ pc' = [pc EXCEPT ![t] = "write"]
    /\ local' = [local EXCEPT ![t] = [batch |-> batch, i |-> 1]]
    /\ UNCHANGED << chain, cache_duration, child_transform_index,
                    transform_data, search_impl, lock, call >>

\* r.write().unwrap()
AcquireWrite(t) ==
    /\ pc[t] = "write"
    /\ write_can_acquire(lock)
    /\ lock' = [lock EXCEPT !.writer = t]
    /\ pc' = [pc EXCEPT ![t] = "forward"]
    /\ UNCHANGED << chain, cache_duration, child_transform_index,
                    transform_data, search_impl, local, call >>

\* self.add_transform(&transform, static_tf)
AddForward(t) ==
    /\ pc[t] = "forward"
    /\ SetBuffer(add_transform(TfBuffer, local[t].batch[local[t].i],
                               static_tf_of(t)))
    /\ pc' = [pc EXCEPT ![t] = "inverse"]
    /\ UNCHANGED << chain, search_impl, lock, local, call >>

\* self.add_transform(&get_inverse(&transform), static_tf), and the next
\* turn of the loop
AddInverse(t) ==
    /\ pc[t] = "inverse"
    /\ SetBuffer(add_transform(TfBuffer,
                               get_inverse(local[t].batch[local[t].i]),
                               static_tf_of(t)))
    /\ IF local[t].i < Len(local[t].batch)
       THEN /\ local' = [local EXCEPT ![t].i = @ + 1]
            /\ pc' = [pc EXCEPT ![t] = "forward"]
       ELSE /\ local' = local
            /\ pc' = [pc EXCEPT ![t] = "unlock"]
    /\ UNCHANGED << chain, search_impl, lock, call >>

\* The write guard is dropped at the end of the statement.
ReleaseWrite(t) ==
    /\ pc[t] = "unlock"
    /\ t \in Subscribers
    /\ lock' = [lock EXCEPT !.writer = "none"]
    /\ pc' = [pc EXCEPT ![t] = "idle"]
    /\ local' = [local EXCEPT ![t] = NoCall]
    /\ UNCHANGED << chain, cache_duration, child_transform_index,
                    transform_data, search_impl, call >>

\* An application thread calls one of the two lookups of the listener.
StartLookup(r, query) ==
    /\ pc[r] = "idle"
    /\ pc' = [pc EXCEPT ![r] = "read"]
    /\ local' = [local EXCEPT ![r] = query]
    /\ UNCHANGED << chain, cache_duration, child_transform_index,
                    transform_data, search_impl, lock, call >>

\* self.buffer.read().unwrap()
AcquireRead(r) ==
    /\ pc[r] = "read"
    /\ read_can_acquire(lock)
    /\ lock' = [lock EXCEPT !.readers = @ \cup {r}]
    /\ pc' = [pc EXCEPT ![r] = "first"]
    /\ UNCHANGED << chain, cache_duration, child_transform_index,
                    transform_data, search_impl, local, call >>

\* The first read of the buffer inside the guard: the path search of
\* lookup_transform, or the first of the two lookups of the time travel.
LookupFirst(r) ==
    LET q == local[r]
    IN  /\ pc[r] = "first"
        /\ \E part \in
               IF q.op = "lookup_transform"
               THEN retrieve_transform_path(TfBuffer, q.from, q.to, q.time)
               ELSE lookup_transform(TfBuffer, q.to, q.fixed_frame, q.time2) :
               local' = [local EXCEPT ![r] =
                            [query |-> q, part |-> part, shared |-> lock.readers]]
        /\ pc' = [pc EXCEPT ![r] = "second"]
        /\ UNCHANGED << chain, cache_duration, child_transform_index,
                        transform_data, search_impl, lock, call >>

\* The rest of the call inside the guard: the sampling of the edges of the
\* path, or the second lookup of the time travel and the composition.
LookupSecond(r) ==
    LET q == local[r].query
        part == local[r].part
    IN  /\ pc[r] = "second"
        /\ \E result \in
               IF q.op = "lookup_transform"
               THEN {lookup_along(TfBuffer, q.from, q.to, q.time, part)}
               ELSE {time_travel(part, tf2, q.from, q.to, q.time2) :
                       tf2 \in lookup_transform(TfBuffer, q.from,
                                                q.fixed_frame, q.time1)} :
               local' = [local EXCEPT ![r] =
                            [query |-> q, result |-> result,
                             shared |-> local[r].shared \cup lock.readers]]
        /\ pc' = [pc EXCEPT ![r] = "unlock"]
        /\ UNCHANGED << chain, cache_duration, child_transform_index,
                        transform_data, search_impl, lock, call >>

\* The read guard is dropped and the call returns.
ReleaseRead(r) ==
    /\ pc[r] = "unlock"
    /\ r \in Readers
    /\ lock' = [lock EXCEPT !.readers = @ \ {r}]
    /\ pc' = [pc EXCEPT ![r] = "idle"]
    /\ call' = [op |-> local[r].query.op, result |-> local[r].result,
                shared |-> local[r].shared]
    /\ local' = [local EXCEPT ![r] = NoCall]
    /\ UNCHANGED << chain, cache_duration, child_transform_index,
                    transform_data, search_impl >>

Next ==
    \/ \E t \in Subscribers, batch \in ListenerBatches : Receive(t, batch)
    \/ \E t \in Subscribers : AcquireWrite(t)
    \/ \E t \in Subscribers : AddForward(t)
    \/ \E t \in Subscribers : AddInverse(t)
    \/ \E t \in Subscribers : ReleaseWrite(t)
    \/ \E r \in Readers, query \in ListenerQueries : StartLookup(r, query)
    \/ \E r \in Readers : AcquireRead(r)
    \/ \E r \in Readers : LookupFirst(r)
    \/ \E r \in Readers : LookupSecond(r)
    \/ \E r \in Readers : ReleaseRead(r)

Spec == Init /\ [][Next]_vars

-----------------------------------------------------------------------------
(* Properties of the listener (Spec).                                      *)

InWriteSection(t) == t \in Subscribers /\ pc[t] \in {"forward", "inverse", "unlock"}

InReadSection(t) == t \in Readers /\ pc[t] \in {"first", "second", "unlock"}

\* C1: while a handle_incoming_transforms call of either subscriber is inside
\* its critical section, no lookup and no other handle_incoming_transforms
\* call is inside its critical section.
C1_ReadersWriterExclusion ==
    \A w \in Subscribers :
        InWriteSection(w)
        => \A t \in Threads \ {w} :
              ~InWriteSection(t) /\ ~InReadSection(t)

\* A callback is adding its batch while the other callback and a lookup
\* wait for the lock, after a lookup that shared the lock with another.
C1_Witness ==
    /\ \E w \in Subscribers :
          /\ pc[w] = "inverse"
          /\ \E o \in Subscribers \ {w} : pc[o] = "write"
    /\ \E r \in Readers : pc[r] = "read"
    /\ call.op = "lookup_transform"
    /\ call.shared = Readers

InverseKey(key) == TfGraphNode(key.parent, key.child)

\* Every stored history has the history of the inverse edge beside it, with
\* the inverse of each of its samples.
BatchesWhole(buf) ==
    \A key \in DOMAIN buf.transform_data :
        /\ InverseKey(key) \in DOMAIN buf.transform_data
        /\ LET h == buf.transform_data[key].transform_chain
               g == buf.transform_data[InverseKey(key)].transform_chain
           IN  /\ Len(h) = Len(g)
               /\ \A i \in 1..Len(h) : g[i] = get_inverse(h[i])

\* C2: a lookup inside its critical section sees a buffer in which no batch
\* is partly applied: no callback is between the first and the last
\* insertion of its batch, every forward sample has its inverse, and the
\* buffer does not change while the lookup is inside.
C2_BatchesAtomic ==
    [][\A r \in Readers :
          (r \in lock'.readers)
          => /\ \A w \in Subscribers : pc'[w] \notin {"forward", "inverse"}
             /\ BatchesWhole([child_transform_index |-> child_transform_index',
                              transform_data |-> transform_data',
                              cache_duration |-> cache_duration'])
             /\ (r \in lock.readers
                 => << child_transform_index', transform_data' >>
                      = << child_transform_index, transform_data >>)
      ]_vars

\* A lookup is between its two reads of the buffer, which holds the whole
\* of a batch of two, while a callback waits with another batch.
C2_Witness ==
    /\ \E r \in Readers :
          /\ pc[r] = "second"
          /\ local[r].query.op = "lookup_transform"
          /\ local[r].part = Ok(<< "b", "c" >>)
    /\ \E w \in Subscribers : pc[w] = "write"
    /\ BatchesWhole(TfBuffer)

-----------------------------------------------------------------------------
(* Properties of the path search and of lookup_transform (SpecBuffer).     *)

StampNs(sample) == time_as_ns_i64(sample.header.stamp)

\* The frames a query may name.  A frame no insertion has named yet is
\* unknown to the buffer.
QueryFrames == Frames

\* The directed edges stored in the buffer whose history is valid at time.
ValidEdges(buf, time) ==
    {e \in QueryFrames \X QueryFrames :
        /\ TfGraphNode(e[2], e[1]) \in DOMAIN buf.transform_data
        /\ has_valid_transform(buf.transform_data[TfGraphNode(e[2], e[1])],
                               time)}

\* The frames a sequence of edges leads to from the frames of `reached`.
RECURSIVE Closure(_, _)
Closure(edges, reached) ==
    LET next == reached \cup {e[2] : e \in {d \in edges : d[1] \in reached}}
    IN  IF next = reached THEN reached ELSE Closure(edges, next)

Reachable(buf, from, to, time) ==
    to \in Closure(ValidEdges(buf, time), {from})

NoRepeat(s) == \A i, j \in 1..Len(s) : i # j => s[i] # s[j]

\* C3: when a sequence of directed edges, each valid at t, leads from `from`
\* to `to`, the path search finds a path and lookup_transform does not
\* return CouldNotFindTransform.
C3_PathSearchComplete ==
    \A from \in QueryFrames, to \in QueryFrames, time \in BufferTimes :
        Reachable(TfBuffer, from, to, time)
        => /\ \A path \in retrieve_transform_path(TfBuffer, from, to, time) :
                 path.ok
           /\ \A r \in lookup_transform(TfBuffer, from, to, time) :
                 r.ok \/ r.error.kind # "CouldNotFindTransform"

\* A lookup from a to c at a non-zero time has succeeded over two edges, in
\* a graph where b also leads back to a.
C3_Witness ==
    /\ call.op = "lookup_transform"
    /\ call.result.ok
    /\ time_as_ns_i64(call.time) # 0
    /\ << "a", "c" >> \notin ValidEdges(TfBuffer, call.time)
    /\ << "b", "a" >> \in ValidEdges(TfBuffer, call.time)
    /\ Reachable(TfBuffer, "a", "c", call.time)

\* C4: a path [f1, ..., fk] returned for (from, to, t) ends at `to`, repeats
\* no frame, and each of (from, f1), (f1, f2), ... is an edge stored in the
\* buffer that is valid at t.
C4_PathSearchSound ==
    \A from \in QueryFrames, to \in QueryFrames, time \in BufferTimes :
        \A path \in retrieve_transform_path(TfBuffer, from, to, time) :
            path.ok =>
                LET full == << from >> \o path.value
                IN  /\ full[Len(full)] = to
                    /\ NoRepeat(full)
                    /\ \A i \in 1..(Len(full) - 1) :
                           << full[i], full[i + 1] >>
                               \in ValidEdges(TfBuffer, time)

\* The search returns the one-element path [c] for the direct edge at one
\* time and the two-element path [b, c] at another.
C4_Witness ==
    \E t1 \in BufferTimes, t2 \in BufferTimes :
        /\ Ok(<< "c" >>) \in retrieve_transform_path(TfBuffer, "a", "c", t1)
        /\ Ok(<< "b", "c" >>) \in retrieve_transform_path(TfBuffer, "a", "c", t2)
        /\ << "a", "c" >> \notin ValidEdges(TfBuffer, t2)

\* C5: for from # to, when no sequence of edges valid at t leads from `from`
\* to `to`, lookup_transform returns CouldNotFindTransform carrying `from`,
\* `to` and the child-frame index of the buffer.
C5_NoPathError ==
    \A from \in QueryFrames, to \in QueryFrames, time \in BufferTimes :
        (from # to /\ ~Reachable(TfBuffer, from, to, time))
        => \A r \in lookup_transform(TfBuffer, from, to, time) :
              /\ ~r.ok
              /\ r.error = [kind |-> "CouldNotFindTransform", from |-> from,
                            to |-> to, index |-> child_transform_index]

\* A lookup from a to c has failed at a time between two times at which c
\* can be reached from a.
C5_Witness ==
    /\ call.op = "lookup_transform"
    /\ ~call.result.ok
    /\ call.result.error.kind = "CouldNotFindTransform"
    /\ call.result.error.index # << >>
    /\ \E t1 \in BufferTimes, t2 \in BufferTimes :
          /\ time_as_ns_i64(t1) < time_as_ns_i64(call.time)
          /\ time_as_ns_i64(call.time) < time_as_ns_i64(t2)
          /\ time_as_ns_i64(t1) # 0
          /\ Reachable(TfBuffer, "a", "c", t1)
          /\ Reachable(TfBuffer, "a", "c", t2)

\* The directed edges stored in the buffer with a non-empty history.
StoredEdges(buf) ==
    {e \in QueryFrames \X QueryFrames :
        /\ TfGraphNode(e[2], e[1]) \in DOMAIN buf.transform_data
        /\ buf.transform_data[TfGraphNode(e[2], e[1])].transform_chain # << >>}

\* The transforms of the samples of a history that carry its newest stamp.
NewestTransforms(s) ==
    {s[j].transform : j \in {k \in 1..Len(s) :
                               \A m \in 1..Len(s) : StampNs(s[m]) <= StampNs(s[k])}}

HistoryOf(buf, parent, child) ==
    buf.transform_data[TfGraphNode(child, parent)].transform_chain

\* C14: a lookup at the query time 0 succeeds exactly when `to` can be
\* reached from `from` over non-empty edges, and the transform it takes from
\* each edge of its path is the transform of a sample with the newest stamp
\* of that edge, without interpolation and without a range error.
C14_LatestSentinel ==
    \A from \in QueryFrames, to \in QueryFrames :
        LET zero == Time(0, 0)
            reach == to \in Closure(StoredEdges(TfBuffer), {from})
        IN  /\ \A r \in lookup_transform(TfBuffer, from, to, zero) :
                  r.ok <=> reach
            /\ \A path \in retrieve_transform_path(TfBuffer, from, to, zero) :
                  /\ path.ok <=> reach
                  /\ path.ok =>
                       LET tf_list == collect_transforms(TfBuffer, from,
                                          path.value, zero, << >>)
                           full == << from >> \o path.value
                       IN  /\ tf_list.ok
                           /\ Len(tf_list.value) = Len(path.value)
                           /\ \A i \in 1..Len(path.value) :
                                 tf_list.value[i] \in NewestTransforms(
                                     HistoryOf(TfBuffer, full[i], full[i + 1]))

\* A lookup from a to c at the query time 0 has succeeded over the edges
\* a -> b and b -> c, which are dynamic and differ in their newest stamp.
C14_Witness ==
    /\ call.op = "lookup_transform"
    /\ time_as_ns_i64(call.time) = 0
    /\ call.result.ok
    /\ << "a", "c" >> \notin StoredEdges(TfBuffer)
    /\ << "a", "b" >> \in StoredEdges(TfBuffer)
    /\ << "b", "c" >> \in StoredEdges(TfBuffer)
    /\ ~transform_data[TfGraphNode("b", "a")].static_tf
    /\ ~transform_data[TfGraphNode("c", "b")].static_tf
    /\ LET ab == HistoryOf(TfBuffer, "a", "b")
           bc == HistoryOf(TfBuffer, "b", "c")
       IN  ab[Len(ab)].header.stamp # bc[Len(bc)].header.stamp

\* The times of the first lookup of a time travel.
TravelTimes == {Time(0, 0), Time(1, 0), Time(MaxSec, 0)}

\* C15: a successful lookup_transform(from, to, t) answers with frame_id =
\* from, child_frame_id = to and stamp = t, the query time; a successful
\* lookup_transform_with_time_travel(to, t2, from, t1, fixed) answers with
\* stamp = t1 (checked for from = a and t2 = 1 s).
C15_AnswerHeader ==
    /\ \A from \in QueryFrames, to \in QueryFrames, time \in BufferTimes :
          \A r \in lookup_transform(TfBuffer, from, to, time) :
              r.ok => /\ r.value.header.frame_id = from
                      /\ r.value.child_frame_id = to
                      /\ r.value.header.stamp = time
    /\ \A to \in QueryFrames, fixed \in QueryFrames, time1 \in TravelTimes :
          \A r \in lookup_transform_with_time_travel(TfBuffer, to, Time(1, 0),
                                                     "a", time1, fixed) :
              r.ok => r.value.header.stamp = time1

\* A lookup from a to c at a non-zero time that is the stamp of no sample has
\* succeeded over a static edge, and a time travel from a at one time to c
\* at another succeeds.
C15_Witness ==
    /\ call.op = "lookup_transform"
    /\ call.result.ok
    /\ call.time = Time(1, BILLION - 1)
    /\ \E key \in DOMAIN transform_data : transform_data[key].static_tf
    /\ \E r \in lookup_transform_with_time_travel(TfBuffer, "c", Time(1, 0),
                                                  "a", Time(MaxSec, 0), "b") :
          r.ok

-----------------------------------------------------------------------------
(* Properties of one edge history (SpecChain).                             *)

StampsOf(s) == [i \in 1..Len(s) |-> StampNs(s[i])]

HoldsStamp(s, time) ==
    \E i \in 1..Len(s) : StampNs(s[i]) = time_as_ns_i64(time)

Count(s, sample) == Cardinality({i \in 1..Len(s) : s[i] = sample})

\* The step is an insertion of call'.msg into the stand-alone history.
IsChainAdd == call'.op = "add_to_buffer" /\ chain' # chain

StrictlySorted(s) ==
    \A i \in 1..(Len(s) - 1) : StampNs(s[i]) < StampNs(s[i + 1])

\* C6: the stored samples of the edge are strictly sorted by stamp: no two
\* stored samples have the same ns-equivalent stamp.
C6_SortedHistories == StrictlySorted(chain.transform_chain)

\* C7: inserting a sample whose stamp is already stored leaves the length of
\* the history unchanged and replaces the transform stored at that stamp.
C7_ExactHitReplaces ==
    [][(IsChainAdd /\ HoldsStamp(chain.transform_chain, call'.msg.header.stamp))
        => /\ Len(chain'.transform_chain) = Len(chain.transform_chain)
           /\ \A i \in 1..Len(chain'.transform_chain) :
                  StampNs(chain'.transform_chain[i]) = StampNs(call'.msg)
                  => chain'.transform_chain[i].transform = call'.msg.transform
      ]_vars

\* C8: after every insertion into a non-static edge, when the newest stamp
\* is later than cache_duration measured from time zero, the newest stamp
\* minus the oldest stamp is at most cache_duration.
C8_RetentionBound ==
    LET s == chain.transform_chain
    IN  (/\ ~chain.static_tf
         /\ s # << >>
         /\ StampNs(s[Len(s)]) > get_nanos(chain.cache_duration))
        => StampNs(s[Len(s)]) - StampNs(s[1]) <= get_nanos(chain.cache_duration)

\* An insertion has acted on a non-static history whose newest stamp is past
\* the cache duration and whose oldest sample sits on the boundary.
C8_Witness ==
    LET s == chain.transform_chain
    IN  /\ call.op = "add_to_buffer"
        /\ ~chain.static_tf
        /\ Len(s) >= 2
        /\ StampNs(s[Len(s)]) > get_nanos(chain.cache_duration)
        /\ StampNs(s[Len(s)]) - StampNs(s[1]) = get_nanos(chain.cache_duration)
        /\ StampNs(call.msg) = StampNs(s[Len(s)])

\* The newest stamp among the samples held before and the inserted one.
NewestNs(s, msg) ==
    LET all == {StampNs(msg)} \cup {StampNs(s[i]) : i \in 1..Len(s)}
    IN  CHOOSE n \in all : \A m \in all : m <= n

InWindow(sample, newest_ns, cache) ==
    newest_ns > get_nanos(cache) => StampNs(sample) >= newest_ns - get_nanos(cache)

\* C9: after an insertion the history holds exactly the samples, previously
\* held or inserted, whose stamp is at least newest_stamp - cache_duration
\* when the newest stamp is past cache_duration, and all of them otherwise.
C9_EvictionExact ==
    [][IsChainAdd =>
        LET before == chain.transform_chain
            after == chain'.transform_chain
            msg == call'.msg
            newest_ns == NewestNs(before, msg)
        IN  \A sample \in ChainMsgs :
               Count(after, sample) =
                   IF InWindow(sample, newest_ns, chain.cache_duration)
                   THEN Count(before, sample) + (IF sample = msg THEN 1 ELSE 0)
                   ELSE 0
      ]_vars

\* C10: after a sequence of insertions into a static edge, sampling the edge
\* at any query time returns the transform of the sample inserted last.  The
\* histories looked at hold no stamp twice, so the insertion of a stamp older
\* than one already held is the case in question.
C10_StaticReturnsLastInserted ==
    (/\ call.op = "add_to_buffer"
     /\ chain.static_tf
     /\ chain.transform_chain # << >>
     /\ StrictlySorted(chain.transform_chain))
    => \A time \in QueryTimes :
          LET r == get_closest_transform(chain, time)
          IN  r.ok /\ r.value.transform = call.msg.transform

\* The buffer that holds the stand-alone history as its only edge,
\* PARENT -> CHILD0, as add_transform stores it.
EdgeBuffer(self) ==
    [child_transform_index |-> (PARENT :> {CHILD0}),
     transform_data |-> (TfGraphNode(CHILD0, PARENT) :> self),
     cache_duration |-> self.cache_duration]

\* The third insertion of test_cache_duration: the cache lasts one second,
\* the history holds the stamps 0 and 1s, and the sample stamped 2s comes in.
EvictingInsertion ==
    /\ IsChainAdd
    /\ chain.cache_duration = Time(1, 0)
    /\ StampsOf(chain.transform_chain) = << 0, BILLION >>
    /\ StampNs(call'.msg) = 2 * BILLION

\* C18 as stated: after the insertions at 0, 1s and 2s with a cache of one
\* second, a lookup on the edge at t = 0 fails with the lookup-in-past error.
C18_LookupAtZeroFailsInPast ==
    [][EvictingInsertion =>
         \A r \in lookup_transform(EdgeBuffer(chain'), PARENT, CHILD0,
                                   Time(0, 0)) :
            ~r.ok /\ r.error.kind = "AttemptedLookupInPast"]_vars

\* C18, amended: after the insertions at 0, 1s and 2s with a cache of one
\* second only the samples at 1s and 2s remain; t = 0 is the request for the
\* latest sample, so sampling the edge at t = 0 returns the sample stamped 2s
\* and the lookup at t = 0 succeeds.  On a dynamic edge a non-zero time before
\* 1s is sampled with the lookup-in-past error carrying the oldest sample.
C18_LookupAtZeroReturnsNewest ==
    [][EvictingInsertion =>
         LET s == chain'.transform_chain
             before == Time(0, BILLION - 1)
         IN  /\ StampsOf(s) = << BILLION, 2 * BILLION >>
             /\ s[2] = call'.msg
             /\ get_closest_transform(chain', Time(0, 0)) = Ok(call'.msg)
             /\ \A r \in lookup_transform(EdgeBuffer(chain'), PARENT, CHILD0,
                                          Time(0, 0)) : r.ok
             /\ (~chain'.static_tf =>
                    get_closest_transform(chain', before) =
                        Err([kind |-> "AttemptedLookupInPast",
                             time |-> before, sample |-> s[1]]))]_vars

C18_Witness ==
    /\ call.op = "add_to_buffer"
    /\ StampNs(call.msg) = 2 * BILLION
    /\ chain.cache_duration = Time(1, 0)
    /\ ~chain.static_tf
    /\ StampsOf(chain.transform_chain) = << BILLION, 2 * BILLION >>

\* C19: when a sample is inserted at a stamp the history already holds, every
\* later sampling of the edge at exactly that stamp returns the transform of
\* the sample inserted last.
C19_LastWriteWins ==
    [][(/\ IsChainAdd
        /\ ~chain.static_tf
        /\ StampNs(call'.msg) # 0
        /\ StrictlySorted(chain.transform_chain)
        /\ HoldsStamp(chain.transform_chain, call'.msg.header.stamp)
        /\ HoldsStamp(chain'.transform_chain, call'.msg.header.stamp))
       => LET r == get_closest_transform(chain', call'.msg.header.stamp)
          IN  r.ok /\ r.value.transform = call'.msg.transform]_vars

-----------------------------------------------------------------------------
(* The samples of one edge arriving in an arbitrary order (SpecOrder).  The *)
(* arrival sequence is drawn at the start with pairwise distinct stamps and *)
(* add_to_buffer is called on its samples one after the other.             *)

MaxOrder == 3

Range(s) == {s[i] : i \in 1..Len(s)}

DistinctStamps(s) ==
    \A i, j \in 1..Len(s) : i # j => StampNs(s[i]) # StampNs(s[j])

Arrivals ==
    {s \in UNION {[1..n -> ChainMsgs] : n \in 1..MaxOrder} : DistinctStamps(s)}

InitOrder ==
    /\ \E static_tf \in BOOLEAN, cache \in CacheDurations :
           chain = TfIndividualTransformChain_new(static_tf, cache)
    /\ search_impl \in SearchImpls
    /\ TfBuffer_new_with_duration(Time(0, 0))
    /\ lock = [writer |-> "none", readers |-> {}]
    /\ pc = << >>
    /\ \E arrival \in Arrivals : local = [all |-> arrival, todo |-> arrival]
    /\ call = NoCall

InsertNext ==
    /\ local.todo # << >>
    /\ chain' = add_to_buffer(chain, Head(local.todo))
    /\ local' = [local EXCEPT !.todo = Tail(local.todo)]
    /\ call' = [op |-> "add_to_buffer", msg |-> Head(local.todo)]
    /\ UNCHANGED << cache_duration, child_transform_index, transform_data,
                    search_impl, lock, pc >>

NextOrder == InsertNext

SpecOrder == InitOrder /\ [][NextOrder]_vars

\* The samples that have arrived so far.
Arrived == SubSeq(local.all, 1, Len(local.all) - Len(local.todo))

\* The samples of a set in ascending order of their stamps.
RECURSIVE Ascending(_)
Ascending(samples) ==
    IF samples = {} THEN << >>
    ELSE LET first == CHOOSE m \in samples :
                          \A other \in samples : StampNs(m) <= StampNs(other)
         IN  << first >> \o Ascending(samples \ {first})

\* The samples of a set that lie in the retention window of its largest
\* stamp.
Retained(samples, cache) ==
    {m \in samples :
        \A other \in samples :
            StampNs(m) >= StampNs(other) - get_nanos(cache)}

\* C20: whatever the order in which samples with pairwise distinct stamps
\* arrive, the history is the samples in ascending stamp order restricted
\* to the retention window of the largest stamp; it depends on the set of
\* the samples only, so every permutation of the arrivals ends the same.
C20_ArrivalOrderIrrelevant ==
    chain.transform_chain =
        Ascending(Retained(Range(Arrived), chain.cache_duration))

C20_Witness ==
    /\ local.todo = << >>
    /\ Len(local.all) = 3
    /\ StampNs(local.all[1]) > StampNs(local.all[3])
    /\ StampNs(local.all[3]) > StampNs(local.all[2])
    /\ Len(chain.transform_chain) = 2

-----------------------------------------------------------------------------
(* The frame graph fed with single-edge batches, and the path search run    *)
(* one loop iteration at a time (SpecGraph).  `local` holds the locals of  *)
(* retrieve_transform_path while a search runs.                            *)

GraphFrames == {"a", "b", "c", "d", "e"}

\* The edges producers send: a short and a long route from a to e, which
\* close a cycle, and a self-edge.
GraphEdges ==
    {<< "a", "b" >>, << "b", "e" >>, << "a", "c" >>, << "c", "d" >>,
     << "d", "e" >>, << "a", "a" >>}

GraphStamps == {Time(1, 0), Time(MaxSec, 0)}

GraphMsgs ==
    {TransformStamped(e[1], e[2], t, Transform(1, 1)) :
        e \in GraphEdges, t \in GraphStamps}

GraphTimes == {Time(1, 0)}

GraphQueries ==
    {[from |-> q[1], to |-> q[2], time |-> time] :
        q \in {<< "a", "e" >>, << "e", "a" >>, << "a", "a" >>},
        time \in GraphTimes}

SearchIdle == [op |-> "idle"]

InitGraph ==
    /\ TfBuffer_new
    /\ search_impl \in SearchImpls
    /\ chain = NoChain
    /\ lock = [writer |-> "none", readers |-> {}]
    /\ pc = << >>
    /\ local = SearchIdle
    /\ call = NoCall

\* A producer's batch of one transform, for an edge not sent before.
GraphIngest(msg) ==
    /\ local.op = "idle"
    /\ EdgeKey(msg) \notin DOMAIN transform_data
    /\ SetBuffer(handle_incoming_transforms(TfBuffer, << msg >>, FALSE))
    /\ call' = [op |-> "handle_incoming_transforms"]
    /\ UNCHANGED << chain, search_impl, lock, pc, local >>

\* Lines 77-82: the locals of retrieve_transform_path before its first loop.
\* popped records the frames taken from the frontier so far.
SearchStart(query) ==
    /\ local.op = "idle"
    /\ local' = [op |-> "search", from |-> query.from, to |-> query.to,
                 time |-> query.time, parents |-> << >>,
                 frontier |-> << query.from >>, visited |-> {query.from},
                 popped |-> << >>, r |-> query.to, res |-> << >>]
    /\ call' = [op |-> "retrieve_transform_path"]
    /\ UNCHANGED << chain, cache_duration, child_transform_index,
                    transform_data, search_impl, lock, pc >>

SearchState(st) ==
    [local EXCEPT !.parents = st.parents, !.frontier = st.frontier,
                  !.visited = st.visited,
                  !.popped = Append(local.popped, Head(local.frontier))]

\* One iteration of the while loop of lines 85-110, the for loop over the
\* children included.
SearchExpand ==
    /\ local.op = "search"
    /\ local.frontier # << >>
    /\ LET current_node == Head(local.frontier)
           popped == [parents |-> local.parents,
                      frontier |-> Tail(local.frontier),
                      visited |-> local.visited]
       IN  IF current_node = local.to
           THEN local' = [SearchState(popped) EXCEPT !.op = "walk"]
           ELSE IF current_node \in DOMAIN child_transform_index
           THEN \E next \in visit_children(
                                TfBuffer, current_node, local.time,
                                child_transform_index[current_node], popped) :
                    local' = SearchState(next)
           ELSE local' = SearchState(popped)
    /\ UNCHANGED << chain, cache_duration, child_transform_index,
                    transform_data, search_impl, lock, pc, call >>

\* The while loop ends on an empty frontier.
SearchExhausted ==
    /\ local.op = "search"
    /\ local.frontier = << >>
    /\ local' = [local EXCEPT !.op = "walk"]
    /\ UNCHANGED << chain, cache_duration, child_transform_index,
                    transform_data, search_impl, lock, pc, call >>

\* One iteration of the loop of lines 112-126, or the return after it.
SearchWalk ==
    /\ local.op = "walk"
    /\ IF local.r = local.from
       THEN /\ local' = SearchIdle
            /\ call' = [op |-> "retrieve_transform_path", from |-> local.from,
                        to |-> local.to, time |-> local.time,
                        popped |-> local.popped,
                        result |-> Ok(Reverse(local.res))]
       ELSE IF local.r \in DOMAIN local.parents
       THEN /\ local' = [local EXCEPT !.res = Append(local.res, local.r),
                                      !.r = local.parents[local.r]]
            /\ UNCHANGED call
       ELSE /\ local' = SearchIdle
            /\ call' = [op |-> "retrieve_transform_path", from |-> local.from,
                        to |-> local.to, time |-> local.time,
                        popped |-> local.popped,
                        result |-> Err(CouldNotFindTransform(
                                           local.from, local.to,
                                           child_transform_index))]
    /\ UNCHANGED << chain, cache_duration, child_transform_index,
                    transform_data, search_impl, lock, pc >>

SearchStep == SearchExpand \/ SearchExhausted \/ SearchWalk

NextGraph ==
    \/ \E msg \in GraphMsgs : GraphIngest(msg)
    \/ \E query \in GraphQueries : SearchStart(query)
    \/ SearchExpand
    \/ SearchExhausted
    \/ SearchWalk

SpecGraph == InitGraph /\ [][NextGraph]_vars

\* The search is a loop of a running thread: it keeps taking its steps.
SpecGraphLive == SpecGraph /\ WF_vars(SearchStep)

-----------------------------------------------------------------------------
(* Properties of the frame graph (SpecGraph).                              *)

\* C22: whenever the lookups from A to B and from B to A both succeed at
\* one time, the composition of the two answers is the identity transform.
C22_ChainIdentity ==
    local.op = "idle" =>
        \A A \in GraphFrames, B \in GraphFrames, t \in GraphTimes :
            \A r1 \in lookup_transform(TfBuffer, A, B, t),
               r2 \in lookup_transform(TfBuffer, B, A, t) :
                (r1.ok /\ r2.ok) =>
                    compose(r1.value.transform, r2.value.transform)
                        = IdentityTransform

\* The directed edges of the buffer that hold a valid transform at the time.
GraphValidEdges(buf, time) ==
    {<< key.parent, key.child >> :
        key \in {k \in DOMAIN buf.transform_data :
                    has_valid_transform(buf.transform_data[k], time)}}

\* The least number of edges of a route from the frames of `reached` to
\* `to`, counted from n; -1 when no route exists.
RECURSIVE Hops(_, _, _, _)
Hops(edges, reached, to, n) ==
    LET next == reached \cup {e[2] : e \in {d \in edges : d[1] \in reached}}
    IN  IF to \in reached THEN n
        ELSE IF next = reached THEN -1
        ELSE Hops(edges, next, to, n + 1)

\* C23: every path the search can return, whatever the iteration order of
\* the child sets, has the least number of edges among the paths valid at
\* the time.
C23_ShortestPath ==
    local.op = "idle" =>
        \A query \in GraphQueries :
            \A path \in retrieve_transform_path(TfBuffer, query.from,
                                                query.to, query.time) :
                path.ok =>
                    Len(path.value) =
                        Hops(GraphValidEdges(TfBuffer, query.time),
                             {query.from}, query.to, 0)

\* C24: the path search terminates on every graph, cycles and self-edges
\* included: no frame is put on the frontier twice, the traversal takes at
\* most as many frames from the frontier as there are frames, the walk back
\* passes each frame at most once, and a search that started comes to its
\* return.
C24_SearchTerminates ==
    /\ [](local.op \in {"search", "walk"} =>
            /\ NoRepeat(local.popped \o local.frontier)
            /\ Len(local.popped) <= Cardinality(GraphFrames)
            /\ NoRepeat(local.res)
            /\ local.r \notin Range(local.res))
    /\ (local.op = "search" ~> local.op = "idle")

\* A search over the cycle and the self-edge has returned a path after
\* taking four frames from the frontier.
C24_Witness ==
    /\ local.op = "idle"
    /\ call.op = "retrieve_transform_path"
    /\ "result" \in DOMAIN call
    /\ call.result.ok
    /\ Len(call.popped) >= 4
    /\ TfGraphNode("a", "a") \in DOMAIN transform_data
    /\ \A e \in GraphEdges : TfGraphNode(e[2], e[1]) \in DOMAIN transform_data

\* The edges form a tree or a forest of trees: every edge comes with its
\* inverse, none leads from a frame to itself, and no edge closes a cycle
\* (with the edge and its inverse taken away its two frames fall apart).
IsTree(edges) ==
    \A e \in edges :
        /\ e[1] # e[2]
        /\ << e[2], e[1] >> \in edges
        /\ e[2] \notin Closure(edges \ {e, << e[2], e[1] >>}, {e[1]})

\* C25: when the edges valid at the time of the query form a tree, the path
\* search returns the same result for every iteration order of the child
\* sets, and so does lookup_transform.
C25_PathIndependentOnTrees ==
    local.op = "idle" =>
        \A query \in GraphQueries :
            IsTree(GraphValidEdges(TfBuffer, query.time)) =>
                /\ Cardinality(retrieve_transform_path(
                       TfBuffer, query.from, query.to, query.time)) = 1
                /\ Cardinality(lookup_transform(
                       TfBuffer, query.from, query.to, query.time)) = 1

\* The five edges of the cycle are stored, d -> e with a stamp that is not
\* valid at the time of the query: the valid edges form a tree that branches
\* at a, and a search from a to e has returned a path.
C25_Witness ==
    /\ local.op = "idle"
    /\ call.op = "retrieve_transform_path"
    /\ "result" \in DOMAIN call
    /\ call.from = "a" /\ call.to = "e" /\ call.result.ok
    /\ IsTree(GraphValidEdges(TfBuffer, call.time))
    /\ TfGraphNode("e", "d") \in DOMAIN transform_data
    /\ << "d", "e" >> \notin GraphValidEdges(TfBuffer, call.time)
    /\ {<< "a", "b" >>, << "a", "c" >>, << "c", "d" >>}
           \subseteq GraphValidEdges(TfBuffer, call.time)

-----------------------------------------------------------------------------
(* Properties of the sampling of one edge history (SpecChain).             *)

\* The weights an interpolation can be made with: the fractions from 0 to 1
\* over the nanosecond distances the stamps allow.
Weights ==
    {w \in [n : 0..(2 * (MaxSec + 1) * BILLION),
            d : 1..(2 * (MaxSec + 1) * BILLION)] : w.n <= w.d}

\* The answer expected of a non-empty dynamic history s sampled at a
\* non-zero time.
SampleExpected(s, time, r) ==
    LET ns == time_as_ns_i64(time)
    IN  IF HoldsStamp(s, time)
        THEN r.ok /\ \E i \in 1..Len(s) : s[i] = r.value /\ StampNs(s[i]) = ns
        ELSE IF ns < StampNs(s[1])
        THEN r = Err([kind |-> "AttemptedLookupInPast", time |-> time,
                      sample |-> s[1]])
        ELSE IF ns > StampNs(s[Len(s)])
        THEN r = Err([kind |-> "AttemptedLookUpInFuture", time |-> time,
                      sample |-> s[Len(s)]])
        ELSE \E i \in 1..(Len(s) - 1) :
                /\ StampNs(s[i]) < ns
                /\ ns < StampNs(s[i + 1])
                /\ r.ok
                /\ r.value.header = [frame_id |-> s[i + 1].header.frame_id,
                                     stamp |-> time]
                /\ r.value.child_frame_id = s[i + 1].child_frame_id
                /\ \E weight \in Weights :
                       r.value.transform =
                           interpolate(s[i].transform, s[i + 1].transform,
                                       weight)

\* C26: a non-empty dynamic history sampled at a non-zero time returns a
\* stored sample with that stamp when there is one, the lookup-in-past error
\* with the oldest sample before the oldest stamp, the lookup-in-future
\* error with the newest sample after the newest stamp, and otherwise an
\* interpolation of the two samples around the time, stamped with the time
\* and carrying the frame ids of the later sample.
C26_EdgeSampling ==
    (~chain.static_tf /\ chain.transform_chain # << >>) =>
        \A time \in QueryTimes :
            time_as_ns_i64(time) # 0 =>
                SampleExpected(chain.transform_chain, time,
                               get_closest_transform(chain, time))

\* An interpolated answer: the history holds no sample at the time asked for
\* and the call succeeded.
C26_Witness ==
    /\ call.op = "get_closest_transform"
    /\ ~chain.static_tf
    /\ time_as_ns_i64(call.time) # 0
    /\ ~HoldsStamp(chain.transform_chain, call.time)
    /\ call.result.ok
    /\ Len(chain.transform_chain) = MaxLen

\* C27: between two adjacent samples with the stamps s1 < t < s2 the earlier
\* sample is given the weight 1 - (ns(t) - ns(s1)) / (ns(s2) - ns(s1)),
\* that is (ns(s2) - ns(t)) / (ns(s2) - ns(s1)), whatever the seconds fields
\* of the stamps.
C27_InterpolationWeight ==
    ~chain.static_tf =>
        LET s == chain.transform_chain
        IN  \A time \in QueryTimes, i \in 1..(Len(s) - 1) :
                (/\ StampNs(s[i]) < time_as_ns_i64(time)
                 /\ time_as_ns_i64(time) < StampNs(s[i + 1]))
                => LET r == get_closest_transform(chain, time)
                       weight == [n |-> StampNs(s[i + 1])
                                            - time_as_ns_i64(time),
                                  d |-> StampNs(s[i + 1]) - StampNs(s[i])]
                   IN  /\ r.ok
                       /\ r.value.transform =
                              interpolate(s[i].transform, s[i + 1].transform,
                                          weight)

-----------------------------------------------------------------------------
(* The time arithmetic of utils.rs applied to drawn arguments (SpecUtils). *)

\* Normalized times with seconds of either sign.
UtilTimes ==
    {Time(sec, nanosec) : sec \in (-MaxSec)..MaxSec, nanosec \in 0..(BILLION - 1)}

\* Nanosecond counts of either sign.
UtilNanos == (-(MaxSec * BILLION))..(MaxSec * BILLION)

InitUtils ==
    /\ \E target \in UtilTimes, delta \in UtilTimes, t \in UtilNanos :
           local = [target |-> target, delta |-> delta, t |-> t]
    /\ TfBuffer_new
    /\ search_impl = "early_return"
    /\ chain = NoChain
    /\ lock = [writer |-> "none", readers |-> {}]
    /\ pc = << >>
    /\ call = NoCall

SubTimeAndTime ==
    /\ call.op # "sub_time_and_time"
    /\ call' = [op |-> "sub_time_and_time",
                result |-> sub_time_and_time(local.target, local.delta)]
    /\ UNCHANGED << chain, cache_duration, child_transform_index,
                    transform_data, search_impl, lock, pc, local >>

TimeFromNanosec ==
    /\ call.op # "time_from_nanosec"
    /\ call' = [op |-> "time_from_nanosec",
                result |-> time_from_nanosec(local.t)]
    /\ UNCHANGED << chain, cache_duration, child_transform_index,
                    transform_data, search_impl, lock, pc, local >>

NextUtils == SubTimeAndTime \/ TimeFromNanosec

SpecUtils == InitUtils /\ [][NextUtils]_vars

\* C28: the difference of two normalized times is a normalized duration
\* whose nanosecond count is the difference of the nanosecond counts of the
\* two times.
C28_TimeDifferenceExact ==
    call.op = "sub_time_and_time" =>
        /\ call.result.nanosec \in 0..(BILLION - 1)
        /\ get_nanos(call.result) =
               time_as_ns_i64(local.target) - time_as_ns_i64(local.delta)

\* C29: the time made of a nanosecond count, negative counts included, has
\* its nanosec field in [0, BILLION) and converts back to the same count.
C29_NanosecRoundTrip ==
    call.op = "time_from_nanosec" =>
        /\ call.result.nanosec \in 0..(BILLION - 1)
        /\ time_as_ns_i64(call.result) = local.t

-----------------------------------------------------------------------------
(* Properties of the lookups over ingested batches (SpecIngest).           *)

-----------------------------------------------------------------------------
(* The order of one edge history (SpecChain).                              *)

\* C31: whatever the arrival order and with stamps repeated, the stored
\* stamps are in non-decreasing order, which is what the binary search of
\* the insertion, of the eviction and of the sampling takes for granted.
C31_StampsNonDecreasing ==
    \A i \in 1..(Len(chain.transform_chain) - 1) :
        StampNs(chain.transform_chain[i])
            <= StampNs(chain.transform_chain[i + 1])

\* A sample arrived late, with a stamp below the newest one, into a history
\* that holds a stamp twice.
C31_Witness ==
    /\ call.op = "add_to_buffer"
    /\ Len(chain.transform_chain) = MaxLen
    /\ ~StrictlySorted(chain.transform_chain)
    /\ HoldsStamp(chain.transform_chain, call.msg.header.stamp)
    /\ StampNs(call.msg)
           < StampNs(chain.transform_chain[Len(chain.transform_chain)])

-----------------------------------------------------------------------------
(* Lookups from a frame to itself (SpecGraph).                             *)

\* The frames of the graph and a frame no producer ever names.
SelfFrames == GraphFrames \cup {"unknown"}

\* C32: a lookup from a frame to itself succeeds at every time, whether or
\* not the buffer knows the frame: the path is empty and the answer is the
\* identity transform with the frame as frame_id and as child_frame_id and
\* the time of the query as stamp.
C32_SelfLookupIsIdentity ==
    local.op = "idle" =>
        \A A \in SelfFrames, time \in BufferTimes :
            /\ retrieve_transform_path(TfBuffer, A, A, time) = {Ok(<< >>)}
            /\ lookup_transform(TfBuffer, A, A, time) =
                   {Ok(TransformStamped(A, A, time, IdentityTransform))}

\* The search from a to a has returned the empty path in a buffer that
\* holds the self-edge of a and the whole cycle.
C32_Witness ==
    /\ local.op = "idle"
    /\ call.op = "retrieve_transform_path"
    /\ "result" \in DOMAIN call
    /\ call.from = "a" /\ call.to = "a"
    /\ call.result = Ok(<< >>)
    /\ \A e \in GraphEdges : TfGraphNode(e[2], e[1]) \in DOMAIN transform_data
    /\ "unknown" \notin DOMAIN child_transform_index

-----------------------------------------------------------------------------
(* Lookups in the two directions (SpecIngest).                             *)

\* The lookup succeeds for some iteration order of the child sets.
CanSucceed(buf, from, to, time) ==
    \E r \in lookup_transform(buf, from, to, time) : r.ok

\* The lookup succeeds for every iteration order of the child sets.
MustSucceed(buf, from, to, time) ==
    \A r \in lookup_transform(buf, from, to, time) : r.ok

\* C33: in a buffer fed by handle_incoming_transforms alone the lookup from
\* A to B succeeds exactly when the lookup from B to A does, for all frames
\* and every time.
C33_SymmetricSuccess ==
    \A A \in Frames, B \in Frames, time \in BufferTimes :
        /\ CanSucceed(TfBuffer, A, B, time) <=> CanSucceed(TfBuffer, B, A, time)
        /\ MustSucceed(TfBuffer, A, B, time)
               <=> MustSucceed(TfBuffer, B, A, time)

\* One edge of the route from a to c was created static and the other
\* dynamic; at one time the lookups succeed in both directions and at
\* another they fail in both.
C33_Witness ==
    /\ TfGraphNode("b", "a") \in DOMAIN transform_data
    /\ TfGraphNode("c", "b") \in DOMAIN transform_data
    /\ transform_data[TfGraphNode("b", "a")].static_tf
           # transform_data[TfGraphNode("c", "b")].static_tf
    /\ \E time \in BufferTimes :
           /\ MustSucceed(TfBuffer, "a", "c", time)
           /\ MustSucceed(TfBuffer, "c", "a", time)
    /\ \E time \in BufferTimes :
           /\ ~CanSucceed(TfBuffer, "a", "c", time)
           /\ ~CanSucceed(TfBuffer, "c", "a", time)

-----------------------------------------------------------------------------
(* The time travel and the completion of the calls of the listener (Spec). *)

IsTimeTravel(r) ==
    /\ pc[r] \in {"first", "second"}
    /\ (IF pc[r] = "first" THEN local[r].op ELSE local[r].query.op)
           = "lookup_transform_with_time_travel"

\* C34: from its first inner lookup to its second a time travel holds the
\* lock for reading, no step of any thread changes the buffer, and the
\* answer it computes is an answer of the whole time travel on the buffer
\* as it is at the second lookup.
C34_TimeTravelOneBufferState ==
    [][\A r \in Readers :
          IsTimeTravel(r) =>
             /\ r \in lock.readers
             /\ << child_transform_index', transform_data', cache_duration' >>
                    = << child_transform_index, transform_data,
                         cache_duration >>
             /\ (pc[r] = "second" /\ pc'[r] = "unlock") =>
                    LET q == local[r].query
                    IN  local'[r].result \in
                            TfListener_lookup_transform_with_time_travel(
                                TfBuffer, q.from, q.time1, q.to, q.time2,
                                q.fixed_frame)
      ]_vars

\* A time travel is between its two inner lookups, the first of which
\* succeeded, while a callback waits for the lock with a batch.
C34_Witness ==
    /\ \E r \in Readers :
          /\ pc[r] = "second"
          /\ local[r].query.op = "lookup_transform_with_time_travel"
          /\ local[r].part.ok
    /\ \E w \in Subscribers : pc[w] = "write"

-----------------------------------------------------------------------------
(* The listener behind a fair lock (SpecFair): the threads that have       *)
(* called write() or read() are served in the order of their calls.  The   *)
(* lock record carries the line of the waiting threads.                    *)

\* Most samples the batches received behind the fair lock may bring the
\* buffer to.
MaxFairSamples == 4

\* TFMessage values: a batch of one transform.
FairBatches == {<< ListenerMsg("a", "b", 1) >>}

\* the thread that called last is served first
is_next_in_line_newest_first(l, t) ==
    l.queue # << >> /\ l.queue[Len(l.queue)] = t

\* The thread is the one that has waited longest.
is_next_in_line(l, t) == l.queue # << >> /\ Head(l.queue) = t

\* The line without the thread.
LeaveLine(q, t) == SelectSeq(q, LAMBDA o : o # t)

InitFair ==
    /\ TfBuffer_new
    /\ search_impl \in SearchImpls
    /\ chain = NoChain
    /\ lock = [writer |-> "none", readers |-> {}, queue |-> << >>]
    /\ pc = [t \in Threads |-> "idle"]
    /\ local = [t \in Threads |-> NoCall]
    /\ call = NoCall

\* The callback of subscriber t is invoked and calls write().
FairReceive(t, batch) ==
    /\ pc[t] = "idle"
    /\ Samples(TfBuffer) + Pending(CHOOSE o \in Subscribers : o # t)
           + 2 * Len(batch) <= MaxFairSamples
    /\ pc' = [pc EXCEPT ![t] = "write"]
    /\ local' = [local EXCEPT ![t] = [batch |-> batch, i |-> 1]]
    /\ lock' = [lock EXCEPT !.queue = Append(@, t)]
    /\ UNCHANGED << chain, cache_duration, child_transform_index,
                    transform_data, search_impl, call >>

\* write() returns the guard.
FairAcquireWrite(t) ==
    /\ pc[t] = "write"
    /\ is_next_in_line(lock, t)
    /\ write_can_acquire(lock)
    /\ lock' = [lock EXCEPT !.writer = t, !.queue = LeaveLine(@, t)]
    /\ pc' = [pc EXCEPT ![t] = "forward"]
    /\ UNCHANGED << chain, cache_duration, child_transform_index,
                    transform_data, search_impl, local, call >>

\* An application thread calls a lookup of the listener, which calls read().
FairStartLookup(r, query) ==
    /\ pc[r] = "idle"
    /\ pc' = [pc EXCEPT ![r] = "read"]
    /\ local' = [local EXCEPT ![r] = query]
    /\ lock' = [lock EXCEPT !.queue = Append(@, r)]
    /\ UNCHANGED << chain, cache_duration, child_transform_index,
                    transform_data, search_impl, call >>

\* read() returns the guard.
FairAcquireRead(r) ==
    /\ pc[r] = "read"
    /\ is_next_in_line(lock, r)
    /\ read_can_acquire(lock)
    /\ lock' = [lock EXCEPT !.readers = @ \cup {r}, !.queue = LeaveLine(@, r)]
    /\ pc' = [pc EXCEPT ![r] = "first"]
    /\ UNCHANGED << chain, cache_duration, child_transform_index,
                    transform_data, search_impl, local, call >>

\* The steps thread t takes by itself once its call has started.
FairStep(t) ==
    \/ t \in Subscribers /\ FairAcquireWrite(t)
    \/ t \in Subscribers /\ AddForward(t)
    \/ t \in Subscribers /\ AddInverse(t)
    \/ ReleaseWrite(t)
    \/ t \in Readers /\ FairAcquireRead(t)
    \/ t \in Readers /\ LookupFirst(t)
    \/ t \in Readers /\ LookupSecond(t)
    \/ ReleaseRead(t)

\* Thread t can take a step of its call: it is inside the guard, where no
\* statement blocks, or it is the first in line and the lock can be taken.
CanStep(t) ==
    \/ InWriteSection(t)
    \/ InReadSection(t)
    \/ /\ pc[t] = "write"
       /\ is_next_in_line(lock, t)
       /\ write_can_acquire(lock)
    \/ /\ pc[t] = "read"
       /\ is_next_in_line(lock, t)
       /\ read_can_acquire(lock)

\* The positions of a thread in a callback and in a lookup.
Positions ==
    {"idle", "write", "forward", "inverse", "read", "first", "second", "unlock"}

\* FairStep(t) seen on the position of the thread alone: every step of the
\* call of t moves t, and no step of another thread does.
Advance(t) ==
    /\ CanStep(t)
    /\ \E p \in Positions \ {pc[t]} : pc' = [pc EXCEPT ![t] = p]

\* Advance(t) is the step of t, and it can be taken where a step of t can.
AdvanceIsFairStep ==
    [][\A t \in Threads : Advance(t) <=> FairStep(t)]_vars

\* No statement inside a guard blocks: each of the two reads of a lookup
\* has a result (the writes of a callback are assignments).
SectionStepsTotal ==
    \A r \in Readers :
        /\ pc[r] = "first" =>
               (IF local[r].op = "lookup_transform"
                THEN retrieve_transform_path(TfBuffer, local[r].from,
                                             local[r].to, local[r].time)
                ELSE lookup_transform(TfBuffer, local[r].to,
                                      local[r].fixed_frame, local[r].time2))
                   # {}
        /\ pc[r] = "second" =>
               (local[r].query.op = "lookup_transform"
                \/ lookup_transform(TfBuffer, local[r].query.from,
                                    local[r].query.fixed_frame,
                                    local[r].query.time1) # {})

NextFair ==
    \/ \E t \in Subscribers, batch \in FairBatches : FairReceive(t, batch)
    \/ \E t \in Subscribers : FairAcquireWrite(t)
    \/ \E t \in Subscribers : AddForward(t)
    \/ \E t \in Subscribers : AddInverse(t)
    \/ \E t \in Subscribers : ReleaseWrite(t)
    \/ \E r \in Readers, query \in ListenerQueries : FairStartLookup(r, query)
    \/ \E r \in Readers : FairAcquireRead(r)
    \/ \E r \in Readers : LookupFirst(r)
    \/ \E r \in Readers : LookupSecond(r)
    \/ \E r \in Readers : ReleaseRead(r)

\* Every thread keeps running: a step it can take for ever is taken.
SpecFair ==
    InitFair /\ [][NextFair]_vars /\ \A t \in Threads : WF_pc(Advance(t))

HoldsLock(t) == lock.writer = t \/ t \in lock.readers

\* C35: a call holds the lock exactly from its acquisition to its return and
\* waits for it only while it does not hold it; every call that has started
\* returns, and every thread that holds the lock lets go of it.
C35_EveryCallCompletes ==
    /\ [](\A t \in Threads :
            /\ HoldsLock(t) <=> (InWriteSection(t) \/ InReadSection(t))
            /\ (\E i \in 1..Len(lock.queue) : lock.queue[i] = t)
                   <=> pc[t] \in {"write", "read"}
            /\ NoRepeat(lock.queue))
    /\ \A t \in Threads : (pc[t] # "idle") ~> (pc[t] = "idle")
    /\ \A t \in Threads : HoldsLock(t) ~> ~HoldsLock(t)

\* Both callbacks and both lookups are in their calls at once: one callback
\* holds the lock and the three other threads wait in line.
C35_Witness ==
    /\ \E w \in Subscribers : pc[w] = "inverse"
    /\ Len(lock.queue) = 3
    /\ \A r \in Readers : pc[r] = "read"

====
